---- MODULE Spec2Model ----
(***************************************************************************)
(* HybridStake: a single-process model of src/hybrid_stake.rs.             *)
(*                                                                         *)
(* Blockchain holds the chain (blocks), the pending-block set, the         *)
(* validator and token-holder registries and the period counter.  Each     *)
(* method of impl Blockchain is one action; run_hybrid_stake is one        *)
(* atomic action that contains the delegation loop, select_validator,      *)
(* Block::new, validate_block (with check_finality) and rotate_validators. *)
(*                                                                         *)
(* Numbers.  u64 fields are kept modulo U64_MODULUS = 2^U64Bits; TLC has   *)
(* 32-bit integers, so the word is scaled down from 64 bits while + and -  *)
(* keep their wrap-around.  A u64 overflow aborts the process when the     *)
(* build has overflow checks (debug profile) and wraps when it has not     *)
(* (release profile): overflow_checks is the profile, fixed at start.      *)
(* reputation (f64, steps of 0.1 from 1.0) is kept in tenths as an         *)
(* integer: 10 is 1.0, -1 is -0.1; the rounding error of f64 is left out.  *)
(*                                                                         *)
(* Specifications.  Spec: add_validator, add_token_holder and rounds in    *)
(* any order.  SpecMain: main(), the registries filled first and then the  *)
(* loop of rounds.  SpecOps: validate_block, add_pending_block and         *)
(* rotate_validators called one by one.                                    *)
(* SpecFinality: validate_block on chains that fill the finality window,   *)
(* for every finality threshold up to the longest chain.                   *)
(***************************************************************************)
EXTENDS Integers, Sequences, FiniteSets, TLC

\* ---------------------------------------------------------------- bounds
U64Bits == 16
MaxPeriod == 3
MaxRounds == 13
MaxAdds == 3
MaxChain == 2

U64_MODULUS == 2 ^ U64Bits
U64_MAX == U64_MODULUS - 1

ValidatorIds == {"A", "B"}
HolderIds == {"H1", "H2"}
\* "X" is an identity that is never registered as a validator.
TargetIds == ValidatorIds \cup {"X"}
StakeVals == {0, 12}
RotationVals == {1, 3}
HolderStakeVals == {2}
ThresholdVals == {4}

\* ------------------------------------------------------ program constants
REWARD == 10
PENALTY == 1
REPUTATION_INITIAL == 10
REPUTATION_STEP == 1
SAMPLE_DATA == "Sample Block Data"

\* Option<T>: None is the empty tuple, Some(x) the one-element tuple.
None == << >>
Some(x) == << x >>
\* String::new(): the empty string, as a digest value.
EMPTY_STRING == << >>

VARIABLES
  blocks,              \* Vec<Block>
  pending_blocks,      \* HashSet<Block>
  validators,          \* HashMap<String, Validator>
  token_holders,       \* HashMap<String, TokenHolder>
  current_period,      \* u64
  finality_threshold,  \* u64, set by Blockchain::new
  clock,               \* SystemTime::now() in ms; one reading lasts the whole run
  overflow_checks,     \* build profile: TRUE = overflow panics, FALSE = wraps
  panicked,            \* the process aborted on an arithmetic overflow
  last_call,           \* the method that ran last, and what it selected
  finality_reached,    \* validators printed by the last check_finality
  adds,                \* calls of add_validator and add_token_holder so far
  ledger               \* per validator: the stake it was registered with, and
                       \* how often it was rewarded and penalized since

vars == << blocks, pending_blocks, validators, token_holders, current_period,
           finality_threshold, clock, overflow_checks, panicked, last_call,
           finality_reached, adds, ledger >>

\* ------------------------------------------------------------- helpers
Wrap(x) == x % U64_MODULUS

\* A slip that an insert could have: the map rebuilt from the one new entry,
\* which drops every other key.
Put_alone(map, key, value) == [k \in {key} |-> value]

Put(map, key, value) ==
  [k \in DOMAIN map \cup {key} |-> IF k = key THEN value ELSE map[k]]

RECURSIVE SumOver(_, _)
SumOver(f, S) ==
  IF S = {} THEN 0
  ELSE LET x == CHOOSE y \in S : TRUE
       IN  f[x] + SumOver(f, S \ {x})

\* ----------------------------------------------------------------- Block
\* The md5 digest of the five fields, taken as collision-free: the digest is
\* the tuple of what was hashed, and no digest is the empty string.
calculate_hash(id, data, validator_id, timestamp, previous_hash) ==
  << id, data, validator_id, timestamp, previous_hash >>

Block_new(id, data, validator_id, previous_hash, now) ==
  [ id            |-> id,
    timestamp     |-> now,
    data          |-> data,
    validator_id  |-> validator_id,
    previous_hash |-> previous_hash,
    hash          |-> calculate_hash(id, data, validator_id, now, previous_hash) ]

\* A slip that tip_hash could have: blocks.first() where blocks.last() is meant.
tip_hash_first(chain) ==
  IF chain = << >> THEN EMPTY_STRING ELSE chain[1].hash

\* The previous_hash run_hybrid_stake gives a new block (lines 143-147).
tip_hash(chain) ==
  IF chain = << >> THEN EMPTY_STRING ELSE chain[Len(chain)].hash

\* ------------------------------------------------------- Blockchain::new
Init ==
  /\ blocks = << >>
  /\ pending_blocks = {}
  /\ validators = << >>
  /\ token_holders = << >>
  /\ current_period = 0
  /\ finality_threshold \in ThresholdVals
  /\ clock = 0
  /\ overflow_checks \in BOOLEAN
  /\ panicked = FALSE
  /\ last_call = [op |-> "new", selected |-> None]
  /\ finality_reached = {}
  /\ adds = 0
  /\ ledger = << >>

\* ------------------------------------------- delegation (lines 132-139)
\* What the loop of run_hybrid_stake adds to validator k's delegated_stake.
DelegatedTo(holders, k) ==
  {h \in DOMAIN holders : holders[h].delegated_to = Some(k)}

DelegationSum(holders, k) ==
  SumOver([h \in DOMAIN holders |-> holders[h].stake], DelegatedTo(holders, k))

update_delegated_stakes(vs, holders) ==
  [k \in DOMAIN vs |->
     [vs[k] EXCEPT !.delegated_stake = Wrap(@ + DelegationSum(holders, k))]]

update_delegated_overflows(vs, holders) ==
  \E k \in DOMAIN vs :
     vs[k].delegated_stake + DelegationSum(holders, k) > U64_MAX

\* ------------------------------------------------------ select_validator
\* The weight closure: (stake + delegated_stake) as f64 * reputation.
weight(v) == Wrap(v.stake + v.delegated_stake) * v.reputation

weight_overflows(v) == v.stake + v.delegated_stake > U64_MAX

\* choose_weighted: Err(NoItem) on an empty slice, Err(InvalidWeight) when a
\* weight is negative, Err(AllWeightsZero) when the weights sum to zero;
\* otherwise an element of positive weight.  .ok() turns every Err into None.
select_validator(vs) ==
  IF DOMAIN vs = {} THEN {None}
  ELSE IF \E k \in DOMAIN vs : weight(vs[k]) < 0 THEN {None}
  ELSE IF \A k \in DOMAIN vs : weight(vs[k]) = 0 THEN {None}
  ELSE {Some(k) : k \in {j \in DOMAIN vs : weight(vs[j]) > 0}}

\* The closure is evaluated on the validators in HashMap order until a
\* negative weight stops the scan.
select_may_panic(vs) == \E k \in DOMAIN vs : weight_overflows(vs[k])

select_must_panic(vs) ==
  /\ select_may_panic(vs)
  /\ \A k \in DOMAIN vs : weight_overflows(vs[k]) \/ weight(vs[k]) >= 0

\* --------------------------------------------------------- check_finality
RECURSIVE CountBy(_, _)
CountBy(seq, id) ==
  IF seq = << >> THEN 0
  ELSE (IF Head(seq).validator_id = id THEN 1 ELSE 0) + CountBy(Tail(seq), id)

\* blocks.iter().rev().take(finality_threshold)
LastBlocks(chain, n) ==
  IF n >= Len(chain) THEN chain ELSE SubSeq(chain, Len(chain) - n + 1, Len(chain))

\* A slip that check_finality could have: `count >= threshold / 2`.
check_finality_at_least(chain, threshold) ==
  LET window == LastBlocks(chain, threshold)
      ids    == {window[i].validator_id : i \in DOMAIN window}
  IN  {id \in ids : CountBy(window, id) >= threshold \div 2}

check_finality(chain, threshold) ==
  LET window == LastBlocks(chain, threshold)
      ids    == {window[i].validator_id : i \in DOMAIN window}
  IN  {id \in ids : CountBy(window, id) > threshold \div 2}

\* --------------------------------------------------------- validate_block
validate_known(vs, block) == block.validator_id \in DOMAIN vs

validate_block_validators(vs, block, period) ==
  IF validate_known(vs, block)
  THEN [vs EXCEPT ![block.validator_id] =
          [@ EXCEPT !.stake = Wrap(@ + REWARD),
                    !.last_block_validated = period,
                    !.reputation = @ + REPUTATION_STEP]]
  ELSE vs

validate_block_overflows(vs, block) ==
  /\ validate_known(vs, block)
  /\ vs[block.validator_id].stake + REWARD > U64_MAX

\* A slip that validate_block could have: blocks.insert(0, block).
validate_block_chain_insert_front(chain, vs, block) ==
  IF validate_known(vs, block) THEN << block >> \o chain ELSE chain

validate_block_chain(chain, vs, block) ==
  IF validate_known(vs, block) THEN Append(chain, block) ELSE chain

\* A slip that validate_block could have: pending_blocks.clear() placed after
\* the `if let`, so that it runs whether or not the validator is known.
validate_block_pending_clears(pending, vs, block) == {}

validate_block_pending(pending, vs, block) ==
  IF validate_known(vs, block) THEN {} ELSE pending

validate_block_finality(reached, chain, vs, block, threshold) ==
  IF validate_known(vs, block)
  THEN check_finality(Append(chain, block), threshold)
  ELSE reached

\* ------------------------------------------------------ rotate_validators
next_period(period) == Wrap(period + 1)

inactive(v, period) == Wrap(period - v.last_block_validated) >= v.rotation_period

penalize(v) ==
  [v EXCEPT !.stake = Wrap(@ - PENALTY), !.reputation = @ - REPUTATION_STEP]

\* The loop of rotate_validators, with the period already incremented.
rotate_validators_map(vs, period) ==
  [k \in DOMAIN vs |-> IF inactive(vs[k], period) THEN penalize(vs[k]) ELSE vs[k]]

rotate_validators_overflows(vs, period) ==
  \/ period + 1 > U64_MAX
  \/ \E k \in DOMAIN vs :
        \/ next_period(period) < vs[k].last_block_validated
        \/ inactive(vs[k], next_period(period)) /\ vs[k].stake < PENALTY

\* ------------------------------------------------------------ the ledger
\* Bookkeeping beside the program: what add_validator was given (line 167),
\* how often the reward of line 92 and the penalty of line 111 were applied.
new_account(stake) ==
  [registered_stake |-> stake, times_selected |-> 0, times_penalized |-> 0]

registered(vs) == [k \in DOMAIN vs |-> new_account(vs[k].stake)]

ledger_validated(accounts, vs, block) ==
  IF validate_known(vs, block)
  THEN [accounts EXCEPT ![block.validator_id].times_selected = @ + 1]
  ELSE accounts

\* vs are the validators the loop of rotate_validators starts from.
ledger_rotated(accounts, vs, period) ==
  [k \in DOMAIN accounts |->
     IF inactive(vs[k], period)
     THEN [accounts[k] EXCEPT !.times_penalized = @ + 1]
     ELSE accounts[k]]

\* ------------------------------------------------------------- the abort
\* An overflow panic unwinds out of main: the process is gone, and the model
\* keeps the state the aborted call started from.
Panic(op, selected) ==
  /\ panicked' = TRUE
  /\ last_call' = [op |-> op, selected |-> selected]
  /\ UNCHANGED << blocks, pending_blocks, validators, token_holders,
                  current_period, finality_threshold, clock, overflow_checks,
                  finality_reached, adds, ledger >>

\* --------------------------------------------------------- add_validator
\* A slip that add_validator could have: entry(id).or_insert(..), which keeps
\* the record of an id that is already registered.
new_validator_or_insert(id, stake, rotation_period) ==
  IF id \in DOMAIN validators THEN validators[id]
  ELSE [ id                   |-> id,
         stake                |-> stake,
         delegated_stake      |-> 0,
         rotation_period      |-> rotation_period,
         last_block_validated |-> 0,
         reputation           |-> REPUTATION_INITIAL ]

\* A slip that add_validator could have: `last_block_validated:
\* rotation_period`, the neighbouring u64 field.
new_validator_grace(id, stake, rotation_period) ==
  [ id                   |-> id,
    stake                |-> stake,
    delegated_stake      |-> 0,
    rotation_period      |-> rotation_period,
    last_block_validated |-> rotation_period,
    reputation           |-> REPUTATION_INITIAL ]

new_validator(id, stake, rotation_period) ==
  [ id                   |-> id,
    stake                |-> stake,
    delegated_stake      |-> 0,
    rotation_period      |-> rotation_period,
    last_block_validated |-> 0,
    reputation           |-> REPUTATION_INITIAL ]

add_validator(id, stake, rotation_period) ==
  /\ ~panicked
  /\ validators' = Put(validators, id, new_validator(id, stake, rotation_period))
  /\ last_call' = [op |-> "add_validator", selected |-> None]
  /\ adds' = adds + 1
  /\ ledger' = Put(ledger, id, new_account(stake))
  /\ UNCHANGED << blocks, pending_blocks, token_holders, current_period,
                  finality_threshold, clock, overflow_checks, panicked,
                  finality_reached >>

\* ------------------------------------------------------ add_token_holder
new_token_holder(id, stake, delegated_to) ==
  [id |-> id, stake |-> stake, delegated_to |-> delegated_to]

add_token_holder(id, stake, delegated_to) ==
  /\ ~panicked
  /\ token_holders' = Put(token_holders, id, new_token_holder(id, stake, delegated_to))
  /\ last_call' = [op |-> "add_token_holder", selected |-> None]
  /\ adds' = adds + 1
  /\ UNCHANGED << blocks, pending_blocks, validators, current_period,
                  finality_threshold, clock, overflow_checks, panicked,
                  finality_reached, ledger >>

\* ------------------------------------------------------ run_hybrid_stake
\* The validators after the delegation loop (lines 133-139).
round_delegated == update_delegated_stakes(validators, token_holders)

\* A slip that round_block could have: self.current_period as the block id.
round_block_period_id(selected) ==
  Block_new(current_period, SAMPLE_DATA, selected[1], tip_hash(blocks), clock)

\* The block the round builds for the validator it selected (lines 143-153).
round_block(selected) ==
  Block_new(Len(blocks), SAMPLE_DATA, selected[1], tip_hash(blocks), clock)

\* The validators after validate_block, before rotate_validators.
round_validated(selected) ==
  IF selected = None THEN round_delegated
  ELSE validate_block_validators(round_delegated, round_block(selected), current_period)

\* A slip that round_period could have: rotate_validators called inside the
\* `if let Some(selected_validator)` block, so only when a block was built.
round_period_if_block(selected) ==
  IF selected = None THEN current_period ELSE next_period(current_period)

\* The period after the round: rotate_validators runs whatever was selected
\* (line 158) and increments the counter first (line 108).
round_period(selected) == next_period(current_period)

round_ledger(selected) ==
  ledger_rotated(IF selected = None THEN ledger
                 ELSE ledger_validated(ledger, round_delegated, round_block(selected)),
                 round_validated(selected), round_period(selected))

round_overflows(selected, select_panics) ==
  \/ update_delegated_overflows(validators, token_holders)
  \/ select_panics
  \/ selected # None /\ validate_block_overflows(round_delegated, round_block(selected))
  \/ rotate_validators_overflows(round_validated(selected), current_period)

\* The whole round for one outcome `selected` of select_validator.
run_hybrid_stake(selected) ==
  /\ ~panicked
  /\ selected \in select_validator(round_delegated)
  /\ \/ /\ overflow_checks => ~round_overflows(selected, select_must_panic(round_delegated))
        /\ validators' = rotate_validators_map(round_validated(selected),
                                               round_period(selected))
        /\ blocks' = IF selected = None THEN blocks
                     ELSE validate_block_chain(blocks, round_delegated, round_block(selected))
        /\ pending_blocks' =
              IF selected = None THEN pending_blocks
              ELSE validate_block_pending(pending_blocks, round_delegated, round_block(selected))
        /\ finality_reached' =
              IF selected = None THEN finality_reached
              ELSE validate_block_finality(finality_reached, blocks, round_delegated,
                                           round_block(selected), finality_threshold)
        /\ current_period' = round_period(selected)
        /\ last_call' = [op |-> "run_hybrid_stake", selected |-> selected]
        /\ ledger' = round_ledger(selected)
        /\ UNCHANGED << token_holders, finality_threshold, clock,
                        overflow_checks, panicked, adds >>
     \/ /\ overflow_checks
        /\ round_overflows(selected, select_may_panic(round_delegated))
        /\ Panic("run_hybrid_stake", selected)

\* -------------------------------------------- the methods called one by one
validate_block(block) ==
  /\ ~panicked
  /\ \/ /\ overflow_checks => ~validate_block_overflows(validators, block)
        /\ validators' = validate_block_validators(validators, block, current_period)
        /\ blocks' = validate_block_chain(blocks, validators, block)
        /\ pending_blocks' = validate_block_pending(pending_blocks, validators, block)
        /\ finality_reached' = validate_block_finality(finality_reached, blocks,
                                                       validators, block, finality_threshold)
        /\ last_call' = [op |-> "validate_block", selected |-> None]
        /\ ledger' = ledger_validated(ledger, validators, block)
        /\ UNCHANGED << token_holders, current_period, finality_threshold, clock,
                        overflow_checks, panicked, adds >>
     \/ /\ overflow_checks
        /\ validate_block_overflows(validators, block)
        /\ Panic("validate_block", None)

add_pending_block(block) ==
  /\ ~panicked
  /\ pending_blocks' = pending_blocks \cup {block}
  /\ last_call' = [op |-> "add_pending_block", selected |-> None]
  /\ UNCHANGED << blocks, validators, token_holders, current_period,
                  finality_threshold, clock, overflow_checks, panicked,
                  finality_reached, adds, ledger >>

rotate_validators ==
  /\ ~panicked
  /\ \/ /\ overflow_checks => ~rotate_validators_overflows(validators, current_period)
        /\ current_period' = next_period(current_period)
        /\ validators' = rotate_validators_map(validators, next_period(current_period))
        /\ last_call' = [op |-> "rotate_validators", selected |-> None]
        /\ ledger' = ledger_rotated(ledger, validators, next_period(current_period))
        /\ UNCHANGED << blocks, pending_blocks, token_holders, finality_threshold,
                        clock, overflow_checks, panicked, finality_reached, adds >>
     \/ /\ overflow_checks
        /\ rotate_validators_overflows(validators, current_period)
        /\ Panic("rotate_validators", None)

\* ------------------------------------------------------------- the driver
\* Spec: the three operations a driver has, in any order.
AddValidator ==
  /\ adds < MaxAdds
  /\ \E id \in ValidatorIds, stake \in StakeVals, rotation_period \in RotationVals :
        add_validator(id, stake, rotation_period)

AddTokenHolder ==
  /\ adds < MaxAdds
  /\ \E id \in HolderIds, stake \in HolderStakeVals,
        delegated_to \in {None} \cup {Some(t) : t \in TargetIds} :
        add_token_holder(id, stake, delegated_to)

Selections == {None} \cup {Some(k) : k \in ValidatorIds}

Round ==
  /\ current_period < MaxPeriod
  /\ \E selected \in Selections : run_hybrid_stake(selected)

Next == AddValidator \/ AddTokenHolder \/ Round

Spec == Init /\ [][Next]_vars

\* SpecMain: main(), scaled down: the registries are filled first (lines
\* 193-199: every validator registered, holder i delegating to validator i),
\* then the loop of rounds runs (lines 202-204).
\* main() registers validators with positive stakes (100, 200, 150).
MainStakeVals == {12, 20}

\* main() gives every validator the same rotation_period (10).
MainValidators ==
  { [k \in ValidatorIds |-> new_validator(k, f[k], r)] :
      f \in [ValidatorIds -> MainStakeVals], r \in RotationVals }

MainTokenHolders ==
  [h \in HolderIds |->
     new_token_holder(h, IF h = "H1" THEN 2 ELSE 3,
                      Some(IF h = "H1" THEN "A" ELSE "B"))]

InitMain ==
  /\ blocks = << >>
  /\ pending_blocks = {}
  /\ validators \in MainValidators
  /\ token_holders = MainTokenHolders
  /\ current_period = 0
  /\ finality_threshold \in ThresholdVals
  /\ clock = 0
  /\ overflow_checks \in BOOLEAN
  /\ panicked = FALSE
  /\ last_call = [op |-> "add_token_holder", selected |-> None]
  /\ finality_reached = {}
  /\ adds = 0
  /\ ledger = registered(validators)

MainRound ==
  /\ current_period < MaxRounds
  /\ \E selected \in Selections : run_hybrid_stake(selected)

NextMain == MainRound

SpecMain == InitMain /\ [][NextMain]_vars

\* SpecOps: the methods of impl Blockchain called one by one, as a test in the
\* file can call them, on a chain whose validators are registered.
OpsValidators ==
  { [k \in ValidatorIds |-> new_validator(k, f[k][1], f[k][2])] :
      f \in [ValidatorIds -> StakeVals \X RotationVals] }

InitOps ==
  /\ blocks = << >>
  /\ pending_blocks = {}
  /\ validators \in OpsValidators
  /\ token_holders = << >>
  /\ current_period = 0
  /\ finality_threshold \in ThresholdVals
  /\ clock = 0
  /\ overflow_checks \in BOOLEAN
  /\ panicked = FALSE
  /\ last_call = [op |-> "add_validator", selected |-> None]
  /\ finality_reached = {}
  /\ adds = 0
  /\ ledger = registered(validators)

\* A digest that is not the tip's: the empty string on a chain that has a
\* tip, the digest of a block that was never appended on the empty chain.
stale_hash(chain) ==
  IF chain = << >> THEN calculate_hash(0, SAMPLE_DATA, "X", clock, EMPTY_STRING)
  ELSE EMPTY_STRING

Candidates ==
  { Block_new(Len(blocks), SAMPLE_DATA, v, p, clock) :
      v \in TargetIds, p \in {tip_hash(blocks), stale_hash(blocks)} }

ValidateBlock ==
  /\ Len(blocks) < MaxChain
  /\ \E block \in Candidates : validate_block(block)

\* At most one candidate is pending at a time.
AddPendingBlock ==
  /\ pending_blocks = {}
  /\ \E block \in Candidates :
        /\ block.previous_hash = tip_hash(blocks)
        /\ add_pending_block(block)

RotateValidators ==
  /\ current_period < MaxPeriod
  /\ rotate_validators

NextOps == ValidateBlock \/ AddPendingBlock \/ RotateValidators

SpecOps == InitOps /\ [][NextOps]_vars

\* SpecFinality: validate_block and add_pending_block on chains long enough
\* to fill the window of check_finality, for every threshold up to the
\* length of the longest chain; current_period stays 0.
MaxWindow == 4

FinalityThresholdVals == 0..MaxWindow

InitFinality ==
  /\ blocks = << >>
  /\ pending_blocks = {}
  /\ validators \in OpsValidators
  /\ token_holders = << >>
  /\ current_period = 0
  /\ finality_threshold \in FinalityThresholdVals
  /\ clock = 0
  /\ overflow_checks \in BOOLEAN
  /\ panicked = FALSE
  /\ last_call = [op |-> "add_validator", selected |-> None]
  /\ finality_reached = {}
  /\ adds = 0
  /\ ledger = registered(validators)

\* The candidates that run_hybrid_stake could have built: linked to the tip.
LinkedCandidates == {block \in Candidates : block.previous_hash = tip_hash(blocks)}

ValidateLinkedBlock ==
  /\ Len(blocks) < MaxWindow
  /\ \E block \in LinkedCandidates : validate_block(block)

NextFinality == ValidateLinkedBlock \/ AddPendingBlock

SpecFinality == InitFinality /\ [][NextFinality]_vars

\* ===================================================================
\* The claims.
\* ===================================================================
\* A step in which run_hybrid_stake ran and returned.
RoundReturns == last_call'.op = "run_hybrid_stake" /\ ~panicked'

Max(a, b) == IF a >= b THEN a ELSE b

\* C1: after every round that returns, every validator's delegated_stake is
\* the sum of the stakes of exactly the token holders that delegate to it
\* (a full recomputation, the same after the 1st and after the n-th round).
C1_DelegationRecomputed ==
  [][RoundReturns =>
       \A k \in DOMAIN validators' :
          validators'[k].delegated_stake = DelegationSum(token_holders, k)]_vars

\* C2: chain linkage: the first block's previous_hash is the empty string and
\* every later block's previous_hash is the hash of the block before it.
C2_ChainLinked ==
  \A i \in 1..Len(blocks) :
     blocks[i].previous_hash =
        IF i = 1 THEN EMPTY_STRING ELSE blocks[i - 1].hash

C2_Witness == Len(blocks) >= 3 /\ ~panicked

\* C3: the inactivity penalty saturates: a round never aborts on the stake
\* subtraction, and a validator that the round penalizes at stake 0 keeps
\* stake 0.
C3_PenaltySaturates ==
  [][last_call'.op = "run_hybrid_stake" =>
       \A k \in DOMAIN validators :
          ( /\ validators[k].stake = 0
            /\ last_call'.selected # Some(k)
            /\ inactive(validators[k], next_period(current_period)) )
          => (~panicked' /\ validators'[k].stake = 0)]_vars

\* C4: in a round that returns, selection fails exactly when no validator has
\* a positive weight (stake + delegated_stake) * max(reputation, 0), and a
\* selected validator has a positive weight.
C4_ClampedWeight(v) == (v.stake + v.delegated_stake) * Max(v.reputation, 0)

C4_SelectionFailsIffNoPositiveWeight ==
  [][RoundReturns =>
       /\ (last_call'.selected = None) <=>
             (\A k \in DOMAIN round_delegated :
                 C4_ClampedWeight(round_delegated[k]) <= 0)
       /\ last_call'.selected # None =>
             C4_ClampedWeight(round_delegated[last_call'.selected[1]]) > 0]_vars

\* C5: validate_block changes neither the chain nor a validator nor the
\* pending set when the block's previous_hash is not the tip's hash (the
\* empty string on the empty chain).
C5_MismatchedBlockRejected ==
  [][\A block \in Candidates :
        (block.previous_hash # tip_hash(blocks) /\ validate_block(block))
        => UNCHANGED << blocks, validators, pending_blocks >>]_vars

\* C6: the validator a round selects ends the round with its stake 10 higher
\* and its reputation 0.1 higher than at the start, whatever its
\* rotation_period is.
C6_SelectedNotPenalized ==
  [][(RoundReturns /\ last_call'.selected # None) =>
       LET k == last_call'.selected[1]
       IN  /\ validators'[k].stake = validators[k].stake + REWARD
           /\ validators'[k].reputation = validators[k].reputation + REPUTATION_STEP]_vars

\* C7: no validator's reputation is ever below 0.
C7_ReputationFloor ==
  \A k \in DOMAIN validators : validators[k].reputation >= 0

\* C8: every round that returns raises current_period by exactly 1, whether
\* or not it selected a validator; no other operation changes it; it never
\* decreases.
C8_PeriodAdvances ==
  [][/\ RoundReturns => current_period' = current_period + 1
     /\ last_call'.op # "run_hybrid_stake" => current_period' = current_period
     /\ current_period' >= current_period]_vars

C8_Witness ==
  /\ last_call.op = "run_hybrid_stake"
  /\ last_call.selected = None
  /\ ~panicked
  /\ current_period >= 2
  /\ Len(blocks) >= 1

\* C9: a round that selects nobody leaves the chain, every stake reward and
\* every last_block_validated alone, and applies the penalty of section 4.6
\* (stake down by 1 and reputation down by 0.1, each saturating at 0) to
\* exactly the inactive validators.
C9_FailingRoundStillRotates ==
  [][(RoundReturns /\ last_call'.selected = None) =>
       /\ blocks' = blocks
       /\ DOMAIN validators' = DOMAIN validators
       /\ \A k \in DOMAIN validators :
             /\ validators'[k].last_block_validated = validators[k].last_block_validated
             /\ IF inactive(validators[k], current_period')
                THEN /\ validators'[k].stake = Max(validators[k].stake - PENALTY, 0)
                     /\ validators'[k].reputation =
                           Max(validators[k].reputation - REPUTATION_STEP, 0)
                ELSE /\ validators'[k].stake = validators[k].stake
                     /\ validators'[k].reputation = validators[k].reputation]_vars

\* C10: validate_block of a block of a registered validator V gives V the
\* reward of 10, the current period as last_block_validated and 0.1 of
\* reputation, appends the block, empties the pending set and changes no
\* other validator.
C10_ValidateRewards ==
  [][\A block \in Candidates :
        ( /\ validate_block(block)
          /\ ~panicked'
          /\ block.validator_id \in DOMAIN validators )
        => LET k == block.validator_id
           IN  /\ validators'[k].stake = validators[k].stake + REWARD
               /\ validators'[k].last_block_validated = current_period
               /\ validators'[k].reputation = validators[k].reputation + REPUTATION_STEP
               /\ blocks' = Append(blocks, block)
               /\ pending_blocks' = {}
               /\ \A j \in DOMAIN validators \ {k} : validators'[j] = validators[j]]_vars

\* C11: validate_block of a block whose validator_id is not registered
\* changes nothing: the chain, the pending set, every validator, the period
\* and the last finality report stay as they were.
C11_UnknownValidatorNoMutation ==
  [][\A block \in Candidates :
        (validate_block(block) /\ block.validator_id \notin DOMAIN validators)
        => /\ ~panicked'
           /\ UNCHANGED << blocks, pending_blocks, validators, current_period,
                           finality_reached >>]_vars

\* A block of an unknown validator was just refused on a chain that has a
\* finality report and with a block pending.
C11_Witness ==
  /\ last_call.op = "validate_block"
  /\ ~panicked
  /\ pending_blocks # {}
  /\ Len(blocks) >= 1
  /\ finality_reached # {}

\* C12: after an append, check_finality reports validator x exactly when x
\* produced more than finality_threshold / 2 (integer division) of the last
\* min(finality_threshold, chain length) blocks; threshold 0 reports nothing;
\* threshold 4 with last producers A, A, B, A reports A and not B.
C12_Producers(chain) == [i \in DOMAIN chain |-> chain[i].validator_id]

C12_CountInWindow(chain, threshold, x) ==
  Cardinality({i \in DOMAIN chain :
                 i > Len(chain) - threshold /\ chain[i].validator_id = x})

C12_FinalityScan ==
  [][\A block \in Candidates :
        ( /\ validate_block(block)
          /\ ~panicked'
          /\ block.validator_id \in DOMAIN validators )
        => /\ \A x \in TargetIds :
                 x \in finality_reached' <=>
                    C12_CountInWindow(blocks', finality_threshold, x)
                       > finality_threshold \div 2
           /\ finality_threshold = 0 => finality_reached' = {}
           /\ ( /\ finality_threshold = 4
                /\ Len(blocks') >= 4
                /\ SubSeq(C12_Producers(blocks'), Len(blocks') - 3, Len(blocks'))
                      = << "A", "A", "B", "A" >> )
              => finality_reached' = {"A"}]_vars

C12_Witness ==
  /\ last_call.op = "validate_block"
  /\ finality_threshold = 4
  /\ C12_Producers(blocks) = << "A", "A", "B", "A" >>
  /\ finality_reached = {"A"}

\* C13: stake accounting: every validator's stake is the stake it was
\* registered with, plus 10 for every time it was selected and its block
\* appended, minus 1 for every time the rotation penalized it.
C13_StakeAccounting ==
  \A k \in DOMAIN validators :
     validators[k].stake =
        ledger[k].registered_stake + REWARD * ledger[k].times_selected
                                   - PENALTY * ledger[k].times_penalized

\* C14: a validator with rotation_period 3 that main()'s first 3 rounds did
\* not select has, after them, 3 less stake and 0.3 less reputation than it
\* was registered with (each not below 0) and its last_block_validated still
\* as registered.
C14_ThreeIdleRounds ==
  \A k \in DOMAIN validators :
     ( /\ validators[k].rotation_period = 3
       /\ current_period = 3
       /\ ledger[k].times_selected = 0 )
     => /\ validators[k].stake =
              Max(ledger[k].registered_stake - 3 * PENALTY, 0)
        /\ validators[k].reputation =
              Max(REPUTATION_INITIAL - 3 * REPUTATION_STEP, 0)
        /\ validators[k].last_block_validated = 0

\* C15: add_validator(id, stake, rotation_period) leaves id registered with
\* that stake and rotation_period, delegated_stake 0, reputation 1.0 (10
\* tenths) and last_block_validated 0, whether or not id was registered
\* before; every other validator, the token holders, the chain and the
\* period are unchanged.
C15_AddValidatorReplaces ==
  [][\A id \in ValidatorIds, stake \in StakeVals, rotation_period \in RotationVals :
        add_validator(id, stake, rotation_period)
        => /\ DOMAIN validators' = DOMAIN validators \cup {id}
           /\ validators'[id].id = id
           /\ validators'[id].stake = stake
           /\ validators'[id].rotation_period = rotation_period
           /\ validators'[id].delegated_stake = 0
           /\ validators'[id].reputation = 10
           /\ validators'[id].last_block_validated = 0
           /\ \A j \in DOMAIN validators \ {id} : validators'[j] = validators[j]
           /\ UNCHANGED << token_holders, blocks, current_period >>]_vars

\* A validator that produced a block was just registered again, beside
\* another validator that keeps its history.
C15_Witness ==
  /\ last_call.op = "add_validator"
  /\ \E k \in DOMAIN validators :
        /\ \E i \in DOMAIN blocks : blocks[i].validator_id = k
        /\ validators[k].stake \in StakeVals
        /\ validators[k].delegated_stake = 0
        /\ validators[k].reputation = 10
        /\ validators[k].last_block_validated = 0
        /\ \E j \in DOMAIN validators \ {k} : validators[j].reputation # 10

\* C16: rotate_validators, when it returns, has raised current_period by 1
\* and, comparing with the raised value, has taken 1 of stake and 0.1 of
\* reputation from exactly the validators with
\* current_period - last_block_validated >= rotation_period; it changes no
\* other stake or reputation and no last_block_validated, delegated_stake or
\* rotation_period.
C16_RotationStep ==
  [][(last_call'.op = "rotate_validators" /\ ~panicked') =>
       /\ current_period' = current_period + 1
       /\ DOMAIN validators' = DOMAIN validators
       /\ \A k \in DOMAIN validators :
             /\ IF current_period' - validators[k].last_block_validated
                      >= validators[k].rotation_period
                THEN /\ validators'[k].stake = validators[k].stake - 1
                     /\ validators'[k].reputation = validators[k].reputation - 1
                ELSE /\ validators'[k].stake = validators[k].stake
                     /\ validators'[k].reputation = validators[k].reputation
             /\ validators'[k].last_block_validated = validators[k].last_block_validated
             /\ validators'[k].delegated_stake = validators[k].delegated_stake
             /\ validators'[k].rotation_period = validators[k].rotation_period]_vars

\* C17: the chain is append-only: a round that returns leaves every block at
\* its position and appends exactly one block, by the validator it selected,
\* if it selected one and none otherwise; the chain is never longer than the
\* number of rounds and as long when every round selected; add_validator and
\* add_token_holder leave the chain alone.
C17_AppendOnly ==
  [][/\ RoundReturns =>
          IF last_call'.selected = None THEN blocks' = blocks
          ELSE /\ Len(blocks') = Len(blocks) + 1
               /\ SubSeq(blocks', 1, Len(blocks)) = blocks
               /\ blocks'[Len(blocks')].validator_id = last_call'.selected[1]
     /\ (RoundReturns /\ last_call'.selected # None /\ Len(blocks) = current_period)
          => Len(blocks') = current_period'
     /\ last_call'.op \in {"add_validator", "add_token_holder"} => blocks' = blocks
     /\ Len(blocks') <= current_period']_vars

\* The third round appended the second block: one round selected nobody.
C17_Witness ==
  /\ last_call.op = "run_hybrid_stake"
  /\ last_call.selected # None
  /\ ~panicked
  /\ Len(blocks) = 2
  /\ current_period = 3

\* C18: block ids are chain positions: the i-th block of the chain (counting
\* from 0) has id i, whatever rounds without a block lie between the blocks.
C18_IdsArePositions ==
  \A i \in 1..Len(blocks) : blocks[i].id = i - 1

\* Two blocks on the chain and at least one round that built none.
C18_Witness ==
  /\ Len(blocks) >= 2
  /\ current_period > Len(blocks)
  /\ ~panicked

\* C19: no validator's last_block_validated is above current_period, so the
\* u64 subtraction current_period - last_block_validated of rotate_validators
\* never underflows, also for validators registered between rounds.
C19_LastValidatedNotAhead ==
  \A k \in DOMAIN validators :
     validators[k].last_block_validated <= current_period

\* A validator was registered after rounds in which another one validated.
C19_Witness ==
  /\ last_call.op = "add_validator"
  /\ current_period >= 2
  /\ \E k \in DOMAIN validators : validators[k].last_block_validated >= 1
  /\ \E j \in DOMAIN validators :
        /\ validators[j].last_block_validated = 0
        /\ validators[j].reputation = REPUTATION_INITIAL

\* C20: the validator_id of every block of the chain is the id of a
\* registered validator.
C20_ProducersRegistered ==
  \A i \in DOMAIN blocks : blocks[i].validator_id \in DOMAIN validators

\* Two validators have produced blocks and a validator was registered since.
C20_Witness ==
  /\ last_call.op = "add_validator"
  /\ \E i, j \in DOMAIN blocks : blocks[i].validator_id # blocks[j].validator_id

====
